---------------------------- MODULE Spec2Model ----------------------------
(***************************************************************************)
(* Edmonds-Karp maximum flow with step history and min-cut extraction      *)
(* (task-1/src/edmonds_karp.py, task-1/src/main.py) and the suffix-counting*)
(* trie (task-2/src/trie.py).                                              *)
(*                                                                         *)
(* The edge list of a call is kept grouped by ordered pair: edges[<<u,v>>] *)
(* is the sequence of capacities of the edges (u, v, c) in list order.     *)
(* The code reads the list only through a set (adj), a sum per pair        *)
(* (capacity) and a dict keyed by pair (original_caps), so the relative    *)
(* order of edges of different pairs is not observable.                    *)
(***************************************************************************)
EXTENDS Integers, Sequences, FiniteSets, TLC

\* ------------------------------------------------------------- bounds
MaxEdges == 1       \* edges the caller appends to the list it starts from
MaxCap == 2         \* largest capacity of one edge
MaxLoopEdges == 1   \* edges appended in the calls followed under fairness
MaxBadEdges == 2    \* longest edge list of a call that may be invalid
MaxInserts == 4     \* Trie.insert calls on one Homework instance
MaxWordLen == 2     \* longest word or pattern

\* float('inf'), the bottleneck before any edge of the path is read
Infinity == 1000000

\* The node list of the call, and one label that is not in it.
Nodes == {"A", "B", "C", "D", "E", "F"}
Outside == "X"
None == "None"
Pairs == Nodes \X Nodes

VARIABLES
    pc,         \* position of the caller: input, loop, done, error, reported, crashed
    source,     \* argument source
    sink,       \* argument sink
    edges,      \* argument edges, grouped by ordered pair
    added,      \* number of edges the caller appended
    adj,        \* adj[n]: set of neighbours
    capacity,   \* capacity[u][v]: residual capacity
    flow,       \* flow[u][v]: signed net flow
    max_flow,   \* running total
    step,       \* step counter
    history,    \* list of step records
    cut,        \* result of min_cut_from_residual (NoCut before the call)
    root,       \* Trie._root: [nodes: set of paths, ends: paths carrying _end]
    suffix_root,\* Trie._suffix_root, same shape
    word_count  \* Trie._word_count

flowVars == <<pc, source, sink, edges, added, adj, capacity, flow, max_flow, step, history, cut>>
trieVars == <<root, suffix_root, word_count>>
vars == <<pc, source, sink, edges, added, adj, capacity, flow, max_flow, step, history, cut,
          root, suffix_root, word_count>>

\* ------------------------------------------------------------ helpers
RECURSIVE SeqSum(_)
SeqSum(s) == IF s = <<>> THEN 0 ELSE Head(s) + SeqSum(Tail(s))

RECURSIVE SetSum(_, _)
SetSum(S, f) ==
    IF S = {} THEN 0
    ELSE LET x == CHOOSE y \in S : TRUE IN f[x] + SetSum(S \ {x}, f)

SetMin(S) == CHOOSE x \in S : \A y \in S : x <= y

\* Every order in which a set can be iterated.
Orders(S) ==
    {o \in [1..Cardinality(S) -> S] : \A i, j \in 1..Cardinality(S) : o[i] = o[j] => i = j}

ZeroTable == [u \in Nodes |-> [v \in Nodes |-> 0]]

\* ------------------------------------------------- edmonds_karp: set-up
\* adj after the loop over edges
BuildAdj(e) ==
    [n \in Nodes |-> {v \in Nodes : e[<<n, v>>] # <<>> \/ e[<<v, n>>] # <<>>}]

\* capacity after the loop over edges (defaultdict(int): absent reads as 0)
BuildCapacity(e) == [u \in Nodes |-> [v \in Nodes |-> SeqSum(e[<<u, v>>])]]

\* ------------------------------------------------------ _bfs_capacity
\* Variant: the root is not marked as visited.
BfsStartUnmarked(src) == (src :> None) @@ [n \in Nodes |-> None]

\* parent after the reset and parent[source] = source
BfsStart(src) == (src :> src) @@ [n \in Nodes |-> None]

\* Variant: the capacity test admits an exhausted edge.
AdmissibleAnyCapacity(u, v, parent, cap) == parent[v] = None /\ cap[u][v] >= 0

\* the test guarding the visit of neighbour v of u
Admissible(u, v, parent, cap) == parent[v] = None /\ cap[u][v] > 0

\* The for loop over adj[u], the neighbours it acts on taken in `order`:
\* each gets parent u; the loop returns True at the sink, else enqueues.
RECURSIVE VisitNeighbours(_, _, _, _, _)
VisitNeighbours(order, u, parent, snk, q) ==
    IF order = <<>> THEN [found |-> FALSE, parent |-> parent, queue |-> q]
    ELSE LET v == Head(order)
             marked == [parent EXCEPT ![v] = u]
         IN IF v = snk
            THEN [found |-> TRUE, parent |-> marked, queue |-> q]
            ELSE VisitNeighbours(Tail(order), u, marked, snk, Append(q, v))

\* The while loop over the queue; the result is the set of outcomes over
\* every iteration order of the (unordered) neighbour sets.
RECURSIVE BfsLoop(_, _, _, _, _)
BfsLoop(q, parent, cap, nbrs, snk) ==
    IF q = <<>> THEN {[found |-> FALSE, parent |-> parent]}
    ELSE LET u == Head(q)
             todo == {v \in nbrs[u] : Admissible(u, v, parent, cap)}
         IN UNION {LET r == VisitNeighbours(order, u, parent, snk, Tail(q))
                   IN IF r.found
                      THEN {[found |-> TRUE, parent |-> r.parent]}
                      ELSE BfsLoop(r.queue, r.parent, cap, nbrs, snk)
                   : order \in Orders(todo)}

bfs_capacity(cap, nbrs, src, snk) == BfsLoop(<<src>>, BfsStart(src), cap, nbrs, snk)

\* ----------------------------------------- edmonds_karp: one iteration
\* path, walked back from the sink along parent and reversed
RECURSIVE PathEdges(_, _, _)
PathEdges(parent, v, src) ==
    IF v = src THEN <<>>
    ELSE Append(PathEdges(parent, parent[v], src), <<parent[v], v>>)

\* Variant: the minimum is taken over the reverse edges.
BottleneckReversed(path, cap) ==
    IF path = <<>> THEN Infinity
    ELSE SetMin({cap[path[i][2]][path[i][1]] : i \in 1..Len(path)})

Bottleneck(path, cap) ==
    IF path = <<>> THEN Infinity
    ELSE SetMin({cap[path[i][1]][path[i][2]] : i \in 1..Len(path)})

\* Variant: the reverse residual capacity is not credited.
RECURSIVE PushCapacityForwardOnly(_, _, _)
PushCapacityForwardOnly(path, cap, b) ==
    IF path = <<>> THEN cap
    ELSE PushCapacityForwardOnly(Tail(path),
             [cap EXCEPT ![Head(path)[1]][Head(path)[2]] = @ - b], b)

RECURSIVE PushCapacity(_, _, _)
PushCapacity(path, cap, b) ==
    IF path = <<>> THEN cap
    ELSE LET u == Head(path)[1]
             v == Head(path)[2]
             c1 == [cap EXCEPT ![u][v] = @ - b]
         IN PushCapacity(Tail(path), [c1 EXCEPT ![v][u] = @ + b], b)

RECURSIVE PushFlow(_, _, _)
PushFlow(path, f, b) ==
    IF path = <<>> THEN f
    ELSE LET u == Head(path)[1]
             v == Head(path)[2]
             f1 == [f EXCEPT ![u][v] = @ + b]
         IN PushFlow(Tail(path), [f1 EXCEPT ![v][u] = @ - b], b)

PathNodes(path, snk) == [i \in 1..Len(path) |-> path[i][1]] \o <<snk>>

\* ------------------------------------------------ min_cut_from_residual
RECURSIVE Visit(_, _)
Visit(visited, residual) ==
    LET next == visited \cup
                {v \in Nodes : \E u \in visited : residual[u][v] > 0}
    IN IF next = visited THEN visited ELSE Visit(next, residual)

\* original_caps: the dict comprehension keeps the last edge of each pair
OriginalCaps(e) ==
    [p \in {q \in Pairs : e[q] # <<>>} |-> e[p][Len(e[p])]]

min_cut_from_residual(e, src, residual) ==
    LET S == Visit({src}, residual)
        T == Nodes \ S
        original_caps == OriginalCaps(e)
        crossing == {p \in DOMAIN original_caps : p[1] \in S /\ p[2] \in T}
    IN [S |-> S, T |-> T,
        cut_edges |-> {<<p[1], p[2], original_caps[p]>> : p \in crossing},
        cap_sum |-> SetSum(crossing, original_caps)]

\* ------------------------------------------------------------- actions
\* no min-cut computed yet
NoCut == [S |-> {}, T |-> {}, cut_edges |-> {}, cap_sum |-> 0]

TrieEmpty == [nodes |-> {<<>>}, ends |-> {}]

\* Edge lists a caller starts from: the empty list, the diamond
\* (A,B,2), (A,C,3), (B,D,3), (C,D,2), and the crossover, where a first
\* path A-B-C-D leaves only A-E-C-B-F-D, back over the edge (B,C).
NoEdges == [p \in Pairs |-> <<>>]
Diamond ==
    [p \in Pairs |->
        IF p = <<"A", "B">> \/ p = <<"C", "D">> THEN <<2>>
        ELSE IF p = <<"A", "C">> \/ p = <<"B", "D">> THEN <<3>>
        ELSE <<>>]
Crossover ==
    [p \in Pairs |->
        IF p \in {<<"A", "B">>, <<"B", "C">>, <<"C", "D">>, <<"A", "E">>,
                  <<"E", "C">>, <<"B", "F">>, <<"F", "D">>}
        THEN <<1>> ELSE <<>>]

InitCommon ==
    /\ pc = "input"
    /\ adj = [n \in Nodes |-> {}]
    /\ capacity = ZeroTable
    /\ flow = ZeroTable
    /\ max_flow = 0
    /\ step = 0
    /\ history = <<>>
    /\ cut = NoCut
    /\ root = TrieEmpty
    /\ suffix_root = TrieEmpty
    /\ word_count = 0

\* A valid call: source and sink are in the node list.  Labels are opaque
\* to the code, so the source is named A and the sink is A itself or D.
Init ==
    /\ source = "A"
    /\ sink \in {"A", "D"}
    /\ edges \in {NoEdges, Diamond, Crossover}
    /\ added = 0
    /\ InitCommon

\* The caller appends one valid edge (u, v, c) to the list it will pass,
\* which holds at most `limit` appended edges, between nodes of `ends`.
AppendEdge(limit, ends) ==
    /\ pc = "input"
    /\ added < limit
    /\ added' = added + 1
    /\ \E u \in ends, v \in ends, c \in 0..MaxCap :
           /\ u # v
           /\ edges' = [edges EXCEPT ![<<u, v>>] = Append(@, c)]
    /\ UNCHANGED <<pc, source, sink, adj, capacity, flow, max_flow, step, history, cut>>
    /\ UNCHANGED trieVars

AddEdge == AppendEdge(MaxEdges, Nodes)

\* edmonds_karp is entered: adj, capacity, parent, max_flow, flow, history, step.
Construct ==
    /\ pc = "input"
    /\ pc' = "loop"
    /\ adj' = BuildAdj(edges)
    /\ capacity' = BuildCapacity(edges)
    /\ flow' = ZeroTable
    /\ max_flow' = 0
    /\ step' = 0
    /\ history' = <<>>
    /\ UNCHANGED <<source, sink, edges, added, cut>>
    /\ UNCHANGED trieVars

\* One iteration of the while loop: _bfs_capacity returned True.
Augment ==
    /\ pc = "loop"
    /\ source \in Nodes
    /\ \E r \in bfs_capacity(capacity, adj, source, sink) :
        /\ r.found
        /\ LET path == PathEdges(r.parent, sink, source)
               bottleneck == Bottleneck(path, capacity)
               cap2 == PushCapacity(path, capacity, bottleneck)
           IN /\ step' = step + 1
              /\ capacity' = cap2
              /\ flow' = PushFlow(path, flow, bottleneck)
              /\ max_flow' = max_flow + bottleneck
              /\ history' = Append(history,
                     [step |-> step + 1,
                      path |-> PathNodes(path, sink),
                      path_edges |-> path,
                      bottleneck |-> bottleneck,
                      cumulative_flow |-> max_flow + bottleneck,
                      residual_snapshot |-> cap2])
    /\ UNCHANGED <<pc, source, sink, edges, added, adj, cut>>
    /\ UNCHANGED trieVars

\* _bfs_capacity returned False: the loop ends and edmonds_karp returns.
Finish ==
    /\ pc = "loop"
    /\ source \in Nodes
    /\ \E r \in bfs_capacity(capacity, adj, source, sink) : ~r.found
    /\ pc' = "done"
    /\ UNCHANGED <<source, sink, edges, added, adj, capacity, flow, max_flow, step, history, cut>>
    /\ UNCHANGED trieVars

\* edmonds_karp.py __main__: the last snapshot, or empty dicts when history is empty.
ReportCut ==
    /\ pc = "done"
    /\ LET residual == IF history # <<>>
                       THEN history[Len(history)].residual_snapshot
                       ELSE ZeroTable
       IN cut' = min_cut_from_residual(edges, source, residual)
    /\ pc' = "reported"
    /\ UNCHANGED <<source, sink, edges, added, adj, capacity, flow, max_flow, step, history>>
    /\ UNCHANGED trieVars

\* main.py __main__: history[-1] raises IndexError when history is empty.
RunnerCut ==
    /\ pc = "done"
    /\ IF history = <<>>
       THEN pc' = "crashed" /\ cut' = cut
       ELSE /\ pc' = "reported"
            /\ cut' = min_cut_from_residual(edges, source,
                                            history[Len(history)].residual_snapshot)
    /\ UNCHANGED <<source, sink, edges, added, adj, capacity, flow, max_flow, step, history>>
    /\ UNCHANGED trieVars

Next ==
    \/ AddEdge
    \/ Construct
    \/ Augment
    \/ Finish
    \/ ReportCut
    \/ RunnerCut

Spec == Init /\ [][Next]_vars

\* --------------------------------------------------- calls that may be invalid
\* Any call: source or sink may be missing from the node list.
BadInit ==
    /\ source \in {"A", Outside}
    /\ sink \in {"A", "D", Outside}
    /\ edges = NoEdges
    /\ added = 0
    /\ InitCommon

\* The caller appends any edge: self-loops and the capacity -1 included.
AddAnyEdge ==
    /\ pc = "input"
    /\ added < MaxBadEdges
    /\ added' = added + 1
    /\ \E u \in Nodes, v \in Nodes, c \in (0 - 1)..MaxCap :
           edges' = [edges EXCEPT ![<<u, v>>] = Append(@, c)]
    /\ UNCHANGED <<pc, source, sink, adj, capacity, flow, max_flow, step, history, cut>>
    /\ UNCHANGED trieVars

\* First _bfs_capacity call with a source that is no key of adj: adj[u] raises KeyError.
BfsKeyError ==
    /\ pc = "loop"
    /\ source \notin Nodes
    /\ pc' = "error"
    /\ UNCHANGED <<source, sink, edges, added, adj, capacity, flow, max_flow, step, history, cut>>
    /\ UNCHANGED trieVars

BadNext ==
    \/ AddAnyEdge
    \/ Construct
    \/ Augment
    \/ Finish
    \/ BfsKeyError

BadSpec == BadInit /\ [][BadNext]_vars

\* ------------------------------------------------------------ trie.py
Alphabet == {"a", "b"}
Words == UNION {[1..n -> Alphabet] : n \in 0..MaxWordLen}
NoNode == <<"None">>

\* word[::-1]
Reverse(w) == [i \in 1..Len(w) |-> w[Len(w) + 1 - i]]

IsPrefix(p, w) == Len(p) <= Len(w) /\ SubSeq(w, 1, Len(p)) = p

\* The walk of insert from a root: every prefix of the word gets a node,
\* the last node gets the _end marker.
TrieInsert(t, w) ==
    [nodes |-> t.nodes \cup {SubSeq(w, 1, k) : k \in 0..Len(w)},
     ends |-> t.ends \cup {w}]

\* A node is named by the path leading to it.
node_for_prefix(prefix, t) == IF prefix \in t.nodes THEN prefix ELSE NoNode

count_words_in_subtree(node, t) ==
    IF node = NoNode THEN 0
    ELSE Cardinality({e \in t.ends : IsPrefix(node, e)})

count_words_with_suffix(pattern) ==
    IF pattern = <<>> THEN word_count
    ELSE count_words_in_subtree(node_for_prefix(Reverse(pattern), suffix_root),
                                suffix_root)

contains(w) == w \in root.nodes /\ w \in root.ends

insert ==
    /\ word_count < MaxInserts
    /\ \E word \in Words :
        /\ root' = TrieInsert(root, word)
        /\ suffix_root' = TrieInsert(suffix_root, Reverse(word))
        /\ word_count' = word_count + 1
    /\ UNCHANGED flowVars

TrieInit ==
    /\ source = "A"
    /\ sink = "A"
    /\ edges = NoEdges
    /\ added = 0
    /\ InitCommon

TrieNext == insert

TrieSpec == TrieInit /\ [][TrieNext]_vars

\* ------------------------------------------------------- specifications
\* Calls followed to the end of the loop.  The interpreter keeps running
\* the loop once it is entered: neither the next iteration nor the exit is
\* delayed forever.
\* The appended edges run between the two inner nodes the seeds share: an
\* edge (C, B) gives the diamond a third, longer path, and an edge (B, C) or
\* (C, B) widens or undoes the crossing of the crossover.
Inner == {"B", "C"}

AddLoopEdge == AppendEdge(MaxLoopEdges, Inner)

FairNext ==
    \/ AddLoopEdge
    \/ Construct
    \/ Augment
    \/ Finish

FairSpec == Init /\ [][FairNext]_vars /\ WF_vars(Augment) /\ WF_vars(Finish)

\* --------------------------------------------------- vocabulary of the claims
OriginalPairs == {p \in Pairs : edges[p] # <<>>}

\* original capacity of the ordered pair: parallel edges add up
PairCapacity(p) == SeqSum(edges[p])

ValidInput ==
    /\ source \in Nodes
    /\ sink \in Nodes
    /\ \A p \in OriginalPairs :
        /\ p[1] # p[2]
        /\ \A i \in 1..Len(edges[p]) : edges[p][i] >= 0

InitialCapacity == [u \in Nodes |-> [v \in Nodes |-> PairCapacity(<<u, v>>)]]

\* nodes reachable from the source over positive-capacity edges of the input
InitiallyReachable == Visit({source}, InitialCapacity)

TerminalCut == min_cut_from_residual(edges, source, capacity)

OutFlow(n) ==
    SetSum({p \in OriginalPairs : p[1] = n},
           [p \in Pairs |-> flow[p[1]][p[2]]])

InFlow(n) ==
    SetSum({p \in OriginalPairs : p[2] = n},
           [p \in Pairs |-> flow[p[1]][p[2]]])

\* fewest edges of a path from the nodes of `frontier` to `target` over
\* positive entries of `cap`; -1 when there is none
RECURSIVE Distance(_, _, _, _, _)
Distance(frontier, seen, target, cap, d) ==
    IF target \in frontier THEN d
    ELSE IF frontier = {} THEN 0 - 1
    ELSE LET next == {v \in Nodes \ seen : \E u \in frontier : cap[u][v] > 0}
         IN Distance(next, seen \cup next, target, cap, d + 1)

\* capacity of the cut (X, Nodes \ X) in the input graph
CutCapacity(X) ==
    SetSum({p \in OriginalPairs : p[1] \in X /\ p[2] \notin X},
           [p \in OriginalPairs |-> PairCapacity(p)])

\* the node sets that hold the source and not the sink
SourceSides == {X \cup {source} : X \in SUBSET (Nodes \ {source, sink})}

\* least capacity of a source-sink cut
MinCutValue == SetMin({CutCapacity(X) : X \in SourceSides})

\* the nodes that lie on the source side of every minimum cut
LeastMinCut ==
    LET least == MinCutValue
        minimal == {X \in SourceSides : CutCapacity(X) = least}
    IN {n \in Nodes : \A X \in minimal : n \in X}

\* paths the first search of the run can return
FirstPaths ==
    {PathEdges(r.parent, sink, source) :
        r \in {x \in bfs_capacity(InitialCapacity, BuildAdj(edges), source, sink) : x.found}}

\* --------------------------------------------------------------- claims
\* C1: on a valid input, once edmonds_karp has returned, the cap_sum that
\* min_cut_from_residual computes from the terminal residual capacities
\* equals max_flow.
C1_CutCapacityEqualsMaxFlow ==
    pc = "done" => TerminalCut.cap_sum = max_flow

\* C2: on a valid input, once edmonds_karp has returned, every original edge
\* (u, v) has 0 <= flow[u][v] <= the original capacity of the pair (u, v).
C2_CapacityRespect ==
    pc = "done" =>
        \A p \in OriginalPairs :
            /\ 0 <= flow[p[1]][p[2]]
            /\ flow[p[1]][p[2]] <= PairCapacity(p)

\* C3: after every augmentation step and at termination, for every node
\* other than source and sink the flow over the original edges leaving it
\* equals the flow over the original edges entering it.
C3_FlowConservation ==
    pc \in {"loop", "done"} =>
        \A n \in Nodes \ {source, sink} : OutFlow(n) = InFlow(n)

\* C4: a call with a negative capacity, a self-loop, or a source or sink
\* outside the node list ends in an error, with no capacity, adjacency or
\* flow entry created, and returns no result.
C4_InvalidInputRejected ==
    (pc \in {"done", "error"} /\ ~ValidInput) =>
        /\ pc = "error"
        /\ adj = [n \in Nodes |-> {}]
        /\ capacity = ZeroTable
        /\ flow = ZeroTable

\* C5: when the input has no positive-capacity path from source to sink, the
\* run has flow 0 and an empty history, and the min-cut obtained for it has
\* S = the nodes reachable from source and T = the remaining nodes.
C5_DisconnectedCut ==
    (pc = "reported" /\ sink \notin InitiallyReachable) =>
        /\ max_flow = 0
        /\ history = <<>>
        /\ cut.S = InitiallyReachable
        /\ cut.T = Nodes \ InitiallyReachable

\* C6: after any sequence of inserts, count_words_with_suffix(pattern) is the
\* number of stored words that end with pattern; for the empty pattern, the
\* number of all stored words.
C6_SuffixCount ==
    \A pattern \in Words :
        count_words_with_suffix(pattern) =
            Cardinality({w \in Words : contains(w) /\ IsPrefix(Reverse(pattern), Reverse(w))})

\* C7: when source equals sink, no augmentation is ever performed: the flow
\* stays 0, the history stays empty and the call does not fail.
C7_SourceIsSink ==
    source = sink =>
        /\ pc # "error"
        /\ max_flow = 0
        /\ step = 0
        /\ history = <<>>
        /\ flow = ZeroTable

\* a returned call with source = sink on a graph with a positive cycle through the source
C7_Witness ==
    /\ pc = "done"
    /\ source = sink
    /\ \E v \in Nodes \ {source} : capacity[source][v] > 0 /\ capacity[v][source] > 0

\* C8: the path recorded by an augmentation step leads from source to sink
\* over edges that had positive residual capacity just before the step, and
\* no path with fewer edges existed in that residual state.
C8_ShortestAugmentingPath ==
    [][history' # history =>
        LET h == history'[Len(history')]
            n == Len(h.path_edges)
        IN /\ history' = Append(history, h)
           /\ n >= 1
           /\ Len(h.path) = n + 1
           /\ h.path[1] = source
           /\ h.path[n + 1] = sink
           /\ \A i \in 1..n :
                /\ h.path_edges[i] = <<h.path[i], h.path[i + 1]>>
                /\ capacity[h.path[i]][h.path[i + 1]] > 0
           /\ n = Distance({source}, {source}, sink, capacity, 0)]_vars

\* a run that took a three-edge path after the two-edge paths were used up
C8_Witness ==
    /\ pc = "done"
    /\ Len(history) >= 2
    /\ Len(history[Len(history)].path_edges) = 3

\* C9: every iteration of the loop has bottleneck >= 1 and strictly raises
\* the total flow, and the loop, once entered, terminates.
C9_ProgressAndTermination ==
    /\ [][history' # history =>
            /\ history'[Len(history')].bottleneck >= 1
            /\ max_flow' > max_flow]_vars
    /\ (pc = "loop") ~> (pc = "done")

\* a run that ended after three iterations
C9_Witness ==
    /\ pc = "done"
    /\ Len(history) >= 3

\* C10: the total flow and the partition (S, T) of the terminal residual
\* state are functions of the input alone, whatever order the neighbours are
\* iterated in: the flow is the least capacity of a source-sink cut and S is
\* the least source side of such a cut (with source = sink: 0 and the nodes
\* reachable from it).
C10_ResultIndependentOfOrder ==
    pc = "done" =>
        /\ TerminalCut.T = Nodes \ TerminalCut.S
        /\ IF source = sink
           THEN max_flow = 0 /\ TerminalCut.S = InitiallyReachable
           ELSE max_flow = MinCutValue /\ TerminalCut.S = LeastMinCut

\* a returned call whose first search could return either of two paths
C10_Witness ==
    /\ pc = "done"
    /\ Cardinality(FirstPaths) >= 2
    /\ history # <<>>

=============================================================================
